---- MODULE Spec2Model ----
(***************************************************************************)
(* Neon Hand Control: gesture classification (core/gestureDetector.ts),    *)
(* the 2D and 3D stroke accumulators (drawing/canvas2D.ts, three/scene.ts, *)
(* three/neonLine3D.ts) and the per-frame orchestrator (main.ts).          *)
(*                                                                         *)
(* Numbers.  The program computes in floating point.  Here every real r is *)
(* the integer r * Unit (fixed point, three decimals); a product of two    *)
(* scaled numbers is divided by Unit, a quotient is multiplied by Unit     *)
(* first, and \div rounds toward minus infinity.  Landmark coordinates are *)
(* in 1/1000 of the frame, canvas coordinates in 1/1000 pixel, world       *)
(* coordinates in 1/1000 world unit.                                       *)
(*                                                                         *)
(* null.  A JavaScript null is the record Null.                            *)
(***************************************************************************)
EXTENDS Integers, Sequences, FiniteSets, TLC

VARIABLES
    currentMode,        \* NeonHandControlApp.currentMode
    lastGestureState,   \* NeonHandControlApp.lastGestureState
    canvas2D,           \* the Canvas2D instance
    scene3D,            \* the Scene3D instance
    detector,           \* the global GestureDetector instance
    modeIndicator,      \* what the ModeIndicator displays
    handData,           \* the observation the last handleHandData call was given
    frames,             \* how many observations have been processed
    calls,              \* the accumulator methods the last handler called, in order
    operation,          \* the accumulator or tracker method called last from outside the handler
    browser,            \* window.Hands, the video element's readyState, the alerts shown
    startup,            \* where NeonHandControlApp.initialize stands
    handTracker         \* the HandTracker instance

vars == <<currentMode, lastGestureState, canvas2D, scene3D, detector, modeIndicator, handData,
          frames, calls, operation, browser, startup, handTracker>>

Null == [null |-> TRUE]

Unit == 1000

Max(a, b) == IF a >= b THEN a ELSE b

Min(a, b) == IF a <= b THEN a ELSE b

RECURSIVE SqrtIter(_, _, _)
SqrtIter(n, lo, hi) ==
    IF lo >= hi THEN lo
    ELSE LET mid == (lo + hi + 1) \div 2
         IN  IF mid * mid <= n THEN SqrtIter(n, mid, hi) ELSE SqrtIter(n, lo, mid - 1)

\* Math.sqrt on scaled squares: the largest r with r * r <= n.
Sqrt(n) == SqrtIter(n, 0, 46340)

RECURSIVE SeqSum(_)
SeqSum(s) == IF s = <<>> THEN 0 ELSE Head(s) + SeqSum(Tail(s))

RECURSIVE SeqMin(_)
SeqMin(s) == IF Len(s) = 1 THEN s[1] ELSE Min(Head(s), SeqMin(Tail(s)))

Range(s) == {s[i] : i \in 1..Len(s)}

(***************************************************************************)
(* core/config.ts                                                          *)
(***************************************************************************)
pinchThreshold == 50

fistThreshold == 80

spreadThreshold == 150

depthSensitivity == 2000

smoothingFactor == 700

minDistance == 10

canvasWidth == 1280

canvasHeight == 720

(***************************************************************************)
(* core/gestureDetector.ts                                                 *)
(***************************************************************************)
NONE == "none"

OPEN_HAND == "open"

CLOSED_FIST == "fist"

PINCH == "pinch"

SPREAD_FINGERS == "spread"

Gesture == {NONE, OPEN_HAND, CLOSED_FIST, PINCH, SPREAD_FINGERS}

historySize == 5

\* The landmarks detect reads: wrist, thumb, index, middle, ring and pinky tip.
TipIdx == {0, 4, 8, 12, 16, 20}

\* landmarks[i] is undefined past the end of the array, and reading .x of undefined
\* in calculateDistance throws; every detector runs before the cascade.
hasLandmarks(hd) == TipIdx \subseteq DOMAIN hd.landmarks

\* The exception that leaves detect in place of a GestureState.
TypeError == [thrown |-> "TypeError"]

calculateDistance(a, b) ==
    LET dx == a.x - b.x
        dy == a.y - b.y
        dz == a.z - b.z
    IN  Sqrt(dx * dx + dy * dy + dz * dz)

detectPinch(landmarks) ==
    LET thumbTip == landmarks[4]
        indexTip == landmarks[8]
        distance == calculateDistance(thumbTip, indexTip)
        normalizedDistance == (distance * Unit) \div pinchThreshold
    IN  [confidence |-> Max(0, Min(Unit, Unit - normalizedDistance)),
         distance |-> distance]

detectFist(landmarks) ==
    LET wrist == landmarks[0]
        fingerTips == <<landmarks[4], landmarks[8], landmarks[12], landmarks[16], landmarks[20]>>
        distances == [i \in 1..5 |-> calculateDistance(wrist, fingerTips[i])]
        avgDistance == SeqSum(distances) \div Len(distances)
        normalizedDistance == (avgDistance * Unit) \div fistThreshold
    IN  [confidence |-> Max(0, Min(Unit, Unit - normalizedDistance)),
         avgDistance |-> avgDistance]

\* A spread detector that normalises by twice the threshold.
detectSpread_doubleThreshold(landmarks) ==
    LET fingerTips == <<landmarks[8], landmarks[12], landmarks[16], landmarks[20]>>
        distances == [i \in 1..3 |-> calculateDistance(fingerTips[i], fingerTips[i + 1])]
        minDistance_ == SeqMin(distances)
        normalizedDistance == (minDistance_ * Unit) \div (2 * spreadThreshold)
    IN  [confidence |-> Max(0, Min(Unit, normalizedDistance)),
         minDistance |-> minDistance_]

detectSpread(landmarks) ==
    LET fingerTips == <<landmarks[8], landmarks[12], landmarks[16], landmarks[20]>>
        distances == [i \in 1..3 |-> calculateDistance(fingerTips[i], fingerTips[i + 1])]
        minDistance_ == SeqMin(distances)
        normalizedDistance == (minDistance_ * Unit) \div spreadThreshold
    IN  [confidence |-> Max(0, Min(Unit, normalizedDistance)),
         minDistance |-> minDistance_]

detectOpen(landmarks, fistConfidence, pinchConfidence) ==
    LET combinedConfidence == (fistConfidence + pinchConfidence) \div 2
        confidence == Max(0, Unit - combinedConfidence)
        wrist == landmarks[0]
        middleTip == landmarks[12]
        middleDistance == calculateDistance(wrist, middleTip)
        extendedConfidence == Min(Unit, (middleDistance * Unit) \div 150)
        finalConfidence == (confidence + extendedConfidence) \div 2
    IN  [confidence |-> finalConfidence]

\* A state whose drawing intent follows the confidence instead of the gesture.
createState_intentFromConfidence(gesture, confidence, isDrawing, depth, metadata) ==
    [gesture |-> gesture, confidence |-> confidence, isDrawing |-> confidence > 500,
     depth |-> depth, metadata |-> metadata]

createState(gesture, confidence, isDrawing, depth, metadata) ==
    [gesture |-> gesture, confidence |-> confidence, isDrawing |-> isDrawing,
     depth |-> depth, metadata |-> metadata]

\* The value of the optional metadata argument when it is left out.
Undefined == [undefined |-> TRUE]

\* A depth that is clamped before the sensitivity is applied.
fistDepth_clampFirst(wrist) ==
    LET normalizedDepth == Unit - wrist.y
    IN  (Max(0, Min(Unit, normalizedDepth)) * depthSensitivity) \div Unit

fistDepth(wrist) ==
    LET normalizedDepth == Unit - wrist.y
    IN  Max(0, Min(Unit, (normalizedDepth * depthSensitivity) \div Unit))

\* A cascade whose tests admit a confidence of exactly one half.
resolveGesture_atLeastHalf(pinchResult, fistResult, spreadResult, openResult, wrist) ==
    IF pinchResult.confidence >= 500
    THEN createState(PINCH, pinchResult.confidence, TRUE, 500,
                     [distances |-> [pinch |-> pinchResult.distance]])
    ELSE IF fistResult.confidence >= 500
    THEN createState(CLOSED_FIST, fistResult.confidence, TRUE, fistDepth(wrist),
                     [distances |-> [fist |-> fistResult.avgDistance]])
    ELSE IF spreadResult.confidence >= 500
    THEN createState(SPREAD_FINGERS, spreadResult.confidence, FALSE, 500,
                     [distances |-> [spread |-> spreadResult.minDistance]])
    ELSE IF openResult.confidence >= 500
    THEN createState(OPEN_HAND, openResult.confidence, FALSE, 500, Undefined)
    ELSE createState(NONE, 0, FALSE, 500, Undefined)

\* A cascade that tests the fist before the pinch.
resolveGesture_fistFirst(pinchResult, fistResult, spreadResult, openResult, wrist) ==
    IF fistResult.confidence > 500
    THEN createState(CLOSED_FIST, fistResult.confidence, TRUE, fistDepth(wrist),
                     [distances |-> [fist |-> fistResult.avgDistance]])
    ELSE IF pinchResult.confidence > 500
    THEN createState(PINCH, pinchResult.confidence, TRUE, 500,
                     [distances |-> [pinch |-> pinchResult.distance]])
    ELSE IF spreadResult.confidence > 500
    THEN createState(SPREAD_FINGERS, spreadResult.confidence, FALSE, 500,
                     [distances |-> [spread |-> spreadResult.minDistance]])
    ELSE IF openResult.confidence > 500
    THEN createState(OPEN_HAND, openResult.confidence, FALSE, 500, Undefined)
    ELSE createState(NONE, 0, FALSE, 500, Undefined)

\* The priority cascade of detect, on the four results already computed.
resolveGesture(pinchResult, fistResult, spreadResult, openResult, wrist) ==
    IF pinchResult.confidence > 500
    THEN createState(PINCH, pinchResult.confidence, TRUE, 500,
                     [distances |-> [pinch |-> pinchResult.distance]])
    ELSE IF fistResult.confidence > 500
    THEN createState(CLOSED_FIST, fistResult.confidence, TRUE, fistDepth(wrist),
                     [distances |-> [fist |-> fistResult.avgDistance]])
    ELSE IF spreadResult.confidence > 500
    THEN createState(SPREAD_FINGERS, spreadResult.confidence, FALSE, 500,
                     [distances |-> [spread |-> spreadResult.minDistance]])
    ELSE IF openResult.confidence > 500
    THEN createState(OPEN_HAND, openResult.confidence, FALSE, 500, Undefined)
    ELSE createState(NONE, 0, FALSE, 500, Undefined)

\* The GestureState detect returns.
detectState(hd) ==
    IF hd = Null THEN createState(NONE, 0, FALSE, 500, Undefined)
    ELSE IF ~hasLandmarks(hd) THEN TypeError
    ELSE LET landmarks == hd.landmarks
             pinchResult == detectPinch(landmarks)
             fistResult == detectFist(landmarks)
         IN  resolveGesture(pinchResult, fistResult, detectSpread(landmarks),
                            detectOpen(landmarks, fistResult.confidence, pinchResult.confidence),
                            landmarks[0])

updateHistory(d, gesture) ==
    LET pushed == Append(d.gestureHistory, gesture)
    IN  [previousGesture |-> gesture,
         gestureHistory |-> IF Len(pushed) > historySize THEN Tail(pushed) ELSE pushed]

\* The detector detect leaves behind: no hand returns, and a missing landmark
\* throws, before any history update.
detectHistory(d, hd, gestureState) ==
    IF hd = Null \/ gestureState = TypeError THEN d
    ELSE updateHistory(d, gestureState.gesture)

NewGestureDetector == [previousGesture |-> NONE, gestureHistory |-> <<>>]

(***************************************************************************)
(* drawing/canvas2D.ts                                                     *)
(***************************************************************************)
\* A smoothing buffer with room for one point more.
bufferSize_plusOne == 5 + 1

bufferSize == 5

\* drawNeonLine(ctx, brush, points): returns at once for fewer than two points,
\* otherwise strokes the path through the points (four glow layers over the
\* same path); the canvas content is the set of path vertices inked.
drawNeonLine(ctx, points) ==
    IF Len(points) < 2 THEN ctx ELSE ctx \cup Range(points)

NewCanvas2D ==
    [isDrawing |-> FALSE, lastPoint |-> Null, pointBuffer |-> <<>>,
     smoothedPoints |-> <<>>, ctx |-> {}]

\* A startDrawing that pushes the point into the smoothing buffer it finds.
Canvas2D_startDrawing_keepsBuffer(c, point) ==
    [c EXCEPT !.isDrawing = TRUE, !.lastPoint = point,
              !.pointBuffer = Append(@, point), !.smoothedPoints = <<point>>]

Canvas2D_startDrawing(c, point) ==
    [c EXCEPT !.isDrawing = TRUE, !.lastPoint = point,
              !.pointBuffer = <<point>>, !.smoothedPoints = <<point>>]

calculateMovingAverage(pointBuffer) ==
    [x |-> SeqSum([i \in 1..Len(pointBuffer) |-> pointBuffer[i].x]) \div Len(pointBuffer),
     y |-> SeqSum([i \in 1..Len(pointBuffer) |-> pointBuffer[i].y]) \div Len(pointBuffer)]

\* An interpolation that goes twice as far as the factor says.
interpolate_twice(a, b, factor) ==
    [x |-> a.x + ((b.x - a.x) * 2 * factor) \div Unit,
     y |-> a.y + ((b.y - a.y) * 2 * factor) \div Unit]

interpolate(a, b, factor) ==
    [x |-> a.x + ((b.x - a.x) * factor) \div Unit,
     y |-> a.y + ((b.y - a.y) * factor) \div Unit]

\* weights[i - startIdx] || 0.6
cubicWeight(k) == IF k = 0 THEN 100 ELSE IF k = 1 THEN 300 ELSE 600

cubicInterpolate(c, point) ==
    IF Len(c.pointBuffer) < 3 \/ c.lastPoint = Null THEN point
    ELSE LET n == Len(c.pointBuffer)
             startIdx == Max(0, n - 3)
             \* the loop runs i = startIdx .. n-1 over the 0-based buffer
             idx == [k \in 1..(n - startIdx) |-> startIdx + k]
             weightedX == SeqSum([k \in 1..Len(idx) |-> c.pointBuffer[idx[k]].x * cubicWeight(k - 1)])
             weightedY == SeqSum([k \in 1..Len(idx) |-> c.pointBuffer[idx[k]].y * cubicWeight(k - 1)])
             totalWeight == SeqSum([k \in 1..Len(idx) |-> cubicWeight(k - 1)])
             smoothed == [x |-> weightedX \div totalWeight, y |-> weightedY \div totalWeight]
         IN  interpolate(smoothed, point, 700)

\* applySmoothing with CONFIG.drawing.smoothingFactor holding factor; c is the
\* canvas after the raw point was pushed into the buffer.
applySmoothingWith(c, point, factor) ==
    IF Len(c.pointBuffer) = 1 THEN point
    ELSE LET avgPoint == calculateMovingAverage(c.pointBuffer)
             interpolatedPoint == interpolate(c.lastPoint, avgPoint, factor)
         IN  IF Len(c.pointBuffer) >= bufferSize
             THEN cubicInterpolate(c, interpolatedPoint)
             ELSE interpolatedPoint

applySmoothing(c, point) == applySmoothingWith(c, point, smoothingFactor)

getDistance(a, b) ==
    LET dx == b.x - a.x
        dy == b.y - a.y
    IN  Sqrt(dx * dx + dy * dy)

\* A drawTo that commits every smoothed point, however near the last one.
Canvas2D_drawTo_ungated(c, point) ==
    IF ~c.isDrawing \/ c.lastPoint = Null THEN c
    ELSE LET pushed == Append(c.pointBuffer, point)
             buffered == [c EXCEPT !.pointBuffer =
                             IF Len(pushed) > bufferSize THEN Tail(pushed) ELSE pushed]
             smoothedPoint == applySmoothing(buffered, point)
             path == Append(c.smoothedPoints, smoothedPoint)
         IN  [buffered EXCEPT
                !.smoothedPoints = path,
                !.ctx = IF Len(path) >= 2 THEN drawNeonLine(@, path) ELSE @,
                !.lastPoint = smoothedPoint]

\* A drawTo that moves the last point of the path instead of appending to it.
Canvas2D_drawTo_replacesLast(c, point) ==
    IF ~c.isDrawing \/ c.lastPoint = Null THEN c
    ELSE LET pushed == Append(c.pointBuffer, point)
             buffered == [c EXCEPT !.pointBuffer =
                             IF Len(pushed) > bufferSize THEN Tail(pushed) ELSE pushed]
             smoothedPoint == applySmoothing(buffered, point)
             distance == getDistance(c.lastPoint, smoothedPoint)
         IN  IF distance < minDistance THEN buffered
             ELSE LET path == [c.smoothedPoints EXCEPT ![Len(c.smoothedPoints)] = smoothedPoint]
                  IN  [buffered EXCEPT
                         !.smoothedPoints = path,
                         !.ctx = IF Len(path) >= 2 THEN drawNeonLine(@, path) ELSE @,
                         !.lastPoint = smoothedPoint]

\* drawTo with CONFIG.drawing.smoothingFactor holding factor.
Canvas2D_drawToWith(c, point, factor) ==
    IF ~c.isDrawing \/ c.lastPoint = Null THEN c
    ELSE LET pushed == Append(c.pointBuffer, point)
             buffered == [c EXCEPT !.pointBuffer =
                             IF Len(pushed) > bufferSize THEN Tail(pushed) ELSE pushed]
             smoothedPoint == applySmoothingWith(buffered, point, factor)
             distance == getDistance(c.lastPoint, smoothedPoint)
         IN  IF distance < minDistance THEN buffered
             ELSE LET path == Append(c.smoothedPoints, smoothedPoint)
                  IN  [buffered EXCEPT
                         !.smoothedPoints = path,
                         !.ctx = IF Len(path) >= 2 THEN drawNeonLine(@, path) ELSE @,
                         !.lastPoint = smoothedPoint]

Canvas2D_drawTo(c, point) == Canvas2D_drawToWith(c, point, smoothingFactor)

Canvas2D_stopDrawing(c) ==
    [isDrawing |-> FALSE, lastPoint |-> Null, pointBuffer |-> <<>>, smoothedPoints |-> <<>>,
     ctx |-> IF c.isDrawing /\ Len(c.smoothedPoints) > 0 /\ Len(c.smoothedPoints) >= 2
             THEN drawNeonLine(c.ctx, c.smoothedPoints)
             ELSE c.ctx]

\* ctx.clearRect over the whole canvas
clearRect(c) == [c EXCEPT !.ctx = {}]

Canvas2D_clear(c) == Canvas2D_stopDrawing(clearRect(c))

normalizeToCanvas(normalizedX, normalizedY) ==
    [x |-> normalizedX * canvasWidth, y |-> normalizedY * canvasHeight]

(***************************************************************************)
(* three/neonLine3D.ts, three/depthController.ts, three/scene.ts           *)
(***************************************************************************)
NewNeonLine3D == [points |-> <<>>, lastPoint |-> Null, isDrawing |-> FALSE, geometry |-> <<>>]

updateGeometry(l) == IF Len(l.points) = 0 THEN l ELSE [l EXCEPT !.geometry = l.points]

NeonLine3D_startDrawing(l, point) ==
    updateGeometry([l EXCEPT !.isDrawing = TRUE, !.lastPoint = point, !.points = <<point>>])

\* a.clone().lerp(b, factor)
lerp(a, b, factor) ==
    [x |-> a.x + ((b.x - a.x) * factor) \div Unit,
     y |-> a.y + ((b.y - a.y) * factor) \div Unit,
     z |-> a.z + ((b.z - a.z) * factor) \div Unit]

distanceTo(a, b) ==
    LET dx == a.x - b.x
        dy == a.y - b.y
        dz == a.z - b.z
    IN  Sqrt(dx * dx + dy * dy + dz * dz)

\* An addPoint without the minimum-distance gate.
NeonLine3D_addPoint_ungated(l, point) ==
    IF ~l.isDrawing \/ l.lastPoint = Null THEN l
    ELSE LET smoothedPoint == lerp(l.lastPoint, point, smoothingFactor)
         IN  updateGeometry([l EXCEPT !.points = Append(@, smoothedPoint),
                                       !.lastPoint = smoothedPoint])

NeonLine3D_addPoint(l, point) ==
    IF ~l.isDrawing \/ l.lastPoint = Null THEN l
    ELSE LET smoothedPoint == lerp(l.lastPoint, point, smoothingFactor)
             distance == distanceTo(l.lastPoint, smoothedPoint)
         IN  IF distance < minDistance THEN l
             ELSE updateGeometry([l EXCEPT !.points = Append(@, smoothedPoint),
                                           !.lastPoint = smoothedPoint])

NeonLine3D_stopDrawing(l) == [l EXCEPT !.isDrawing = FALSE, !.lastPoint = Null]

NeonLine3D_clear(l) ==
    updateGeometry([l EXCEPT !.points = <<>>, !.lastPoint = Null, !.isDrawing = FALSE])

depthRange == 10

worldScale == 10

\* container.clientWidth and container.clientHeight, in pixels
clientWidth == 1280

clientHeight == 720

getZDepth(normalizedDepth) == (normalizedDepth - 500) * depthRange

normalizeTo3D(normalizedX, normalizedY, normalizedZ) ==
    [x |-> ((normalizedX - 500) * worldScale * clientWidth) \div clientHeight,
     y |-> (500 - normalizedY) * worldScale,
     z |-> getZDepth(normalizedZ)]

\* currentLine is the position in lines of the line it refers to, 0 for null.
NewScene3D == [currentLine |-> 0, lines |-> <<>>]

Scene3D_startDrawing(s, point) ==
    [currentLine |-> Len(s.lines) + 1,
     lines |-> Append(s.lines, NeonLine3D_startDrawing(NewNeonLine3D, point))]

\* An addPoint that opens a line when none is open.
Scene3D_addPoint_opensLine(s, point) ==
    IF s.currentLine # 0
    THEN [s EXCEPT !.lines[s.currentLine] = NeonLine3D_addPoint(@, point)]
    ELSE [currentLine |-> Len(s.lines) + 1,
          lines |-> Append(s.lines, NeonLine3D_startDrawing(NewNeonLine3D, point))]

Scene3D_addPoint(s, point) ==
    IF s.currentLine # 0
    THEN [s EXCEPT !.lines[s.currentLine] = NeonLine3D_addPoint(@, point)]
    ELSE s

Scene3D_stopDrawing(s) ==
    IF s.currentLine # 0
    THEN [currentLine |-> 0,
          lines |-> [s.lines EXCEPT ![s.currentLine] = NeonLine3D_stopDrawing(@)]]
    ELSE s

Scene3D_clear(s) == [currentLine |-> 0, lines |-> <<>>]

(***************************************************************************)
(* core/handTracker.ts: HandTracker.  An async method is followed from one *)
(* await to the next; the continuation of an await that can resume runs    *)
(* before the browser starts another task.                                 *)
(***************************************************************************)
\* HTMLMediaElement.readyState
HAVE_NOTHING == 0

HAVE_METADATA == 1

HAVE_ENOUGH_DATA == 4

\* The page when the application is constructed: the script that defines
\* window.Hands not loaded yet, the video element without a stream.
NewBrowser == [Hands |-> FALSE, readyState |-> HAVE_NOTHING, alerts |-> 0]

\* initializationPromise is pending while it is "polling" (waitForMediaPipeHands)
\* or "creating" (the Hands instance made, the one-second wait running).
\* starts holds the position of every start() call made, callbacks the
\* requestAnimationFrame handles whose callback has not run and was not cancelled,
\* sentFrames the hands.send calls made.  animationFrameId is a handle, 0 for null.
NewHandTracker ==
    [hands |-> Null, isProcessing |-> FALSE, animationFrameId |-> 0, callback |-> Null,
     initializationPromise |-> "polling", starts |-> <<>>, callbacks |-> {},
     requested |-> 0, sentFrames |-> 0]

\* videoSource is the video element the tracker was constructed with.
processFrame(t, readyState) ==
    IF ~t.isProcessing \/ t.hands = Null THEN t
    ELSE LET send == readyState >= HAVE_ENOUGH_DATA
             id == t.requested + 1
         IN  [t EXCEPT !.sentFrames = IF send THEN @ + 1 ELSE @,
                       !.requested = id,
                       !.animationFrameId = id,
                       !.callbacks = @ \cup {id}]

\* start() up to its first await.
HandTracker_start(t) ==
    IF t.isProcessing THEN [t EXCEPT !.starts = Append(@, "returned")]
    ELSE [t EXCEPT !.starts = Append(@, "awaitInit")]

HandTracker_stop(t) ==
    [t EXCEPT !.isProcessing = FALSE,
              !.callbacks = IF t.animationFrameId # 0 THEN @ \ {t.animationFrameId} ELSE @,
              !.animationFrameId = 0]

\* The await of start() call i can resume: the initialization promise has settled,
\* or loadedmetadata has fired.
canResume(t, i, readyState) ==
    \/ t.starts[i] = "awaitInit" /\ t.initializationPromise \in {"fulfilled", "rejected"}
    \/ t.starts[i] = "awaitVideo" /\ readyState >= HAVE_METADATA

\* start() call i from the await it stands at to the next, or to its end:
\* isProcessing = true; processFrame().
resumeStart(t, i, readyState) ==
    LET startProcessing ==
            processFrame([t EXCEPT !.isProcessing = TRUE, !.starts[i] = "returned"],
                         readyState)
    IN  IF t.starts[i] = "awaitVideo" THEN startProcessing
        ELSE IF t.initializationPromise = "rejected" \/ t.hands = Null
        THEN [t EXCEPT !.starts[i] = "thrown"]
        ELSE IF readyState < HAVE_METADATA
        THEN [t EXCEPT !.starts[i] = "awaitVideo"]
        ELSE startProcessing

\* The callbacks of one animation frame, n of them, each a processFrame call.
RECURSIVE runCallbacks(_, _, _)
runCallbacks(t, n, readyState) ==
    IF n = 0 THEN t ELSE runCallbacks(processFrame(t, readyState), n - 1, readyState)

(***************************************************************************)
(* main.ts: NeonHandControlApp.  The orchestrator's part of the state is   *)
(* the record a = [currentMode, canvas2D, scene3D, calls]; every call of   *)
(* an accumulator method is a step on that record.                         *)
(***************************************************************************)
callCanvasStart(a, point) ==
    [a EXCEPT !.canvas2D = Canvas2D_startDrawing(@, point),
              !.calls = Append(@, "canvas2D.startDrawing")]

callCanvasDrawTo(a, point) ==
    [a EXCEPT !.canvas2D = Canvas2D_drawTo(@, point),
              !.calls = Append(@, "canvas2D.drawTo")]

callCanvasStop(a) ==
    [a EXCEPT !.canvas2D = Canvas2D_stopDrawing(@),
              !.calls = Append(@, "canvas2D.stopDrawing")]

callCanvasClear(a) ==
    [a EXCEPT !.canvas2D = Canvas2D_clear(@),
              !.calls = Append(@, "canvas2D.clear")]

callSceneStart(a, point) ==
    [a EXCEPT !.scene3D = Scene3D_startDrawing(@, point),
              !.calls = Append(@, "scene3D.startDrawing")]

callSceneAddPoint(a, point) ==
    [a EXCEPT !.scene3D = Scene3D_addPoint(@, point),
              !.calls = Append(@, "scene3D.addPoint")]

callSceneStop(a) ==
    [a EXCEPT !.scene3D = Scene3D_stopDrawing(@),
              !.calls = Append(@, "scene3D.stopDrawing")]

callSceneClear(a) ==
    [a EXCEPT !.scene3D = Scene3D_clear(@),
              !.calls = Append(@, "scene3D.clear")]

\* A no-hand handler that stops the 2D stroke whatever the mode.
stopCurrentMode_canvasAlways(a) == callCanvasStop(a)

stopCurrentMode(a) ==
    IF a.currentMode = "2D" THEN callCanvasStop(a)
    ELSE IF a.currentMode = "3D" THEN callSceneStop(a)
    ELSE a

\* A spread handler that clears both surfaces.
clearCurrentMode_both(a) == callSceneClear(callCanvasClear(a))

clearCurrentMode(a) ==
    IF a.currentMode = "2D" THEN callCanvasClear(a)
    ELSE IF a.currentMode = "3D" THEN callSceneClear(a)
    ELSE a

\* A mode assignment that falls back to none when no gesture is recognised.
modeForGesture_resetOnNone(gesture, mode) ==
    IF gesture = CLOSED_FIST THEN "3D"
    ELSE IF gesture = PINCH THEN "2D"
    ELSE IF gesture = OPEN_HAND THEN "2D"
    ELSE "none"

\* The mode the gesture sets; SPREAD_FINGERS and OPEN_HAND return before or in it.
modeForGesture(gesture, mode) ==
    IF gesture = CLOSED_FIST THEN "3D"
    ELSE IF gesture = PINCH THEN "2D"
    ELSE IF gesture = OPEN_HAND THEN "2D"
    ELSE mode

\* A guard that tests the drawing intent alone, whatever the gesture.
isDrawingFrame_anyIntent(gestureState) == gestureState.isDrawing

\* A guard that lets every frame that reaches it draw.
isDrawingFrame_always(gestureState) == TRUE

\* The test that guards both drawing branches.
isDrawingFrame(gestureState) ==
    gestureState.isDrawing /\ gestureState.gesture = PINCH

\* this.lastGestureState?.gesture === gesture
lastGestureIs(last, gesture) == last # Null /\ last.gesture = gesture

\* A start-vs-continue test that looks at the previous drawing intent alone.
startsNewLine_intentOnly(last, gesture) == last = Null \/ ~last.isDrawing

\* !this.lastGestureState?.isDrawing || this.lastGestureState.gesture !== gesture
startsNewLine(last, gesture) ==
    last = Null \/ ~last.isDrawing \/ last.gesture # gesture

drawIn2D(a, last, indexTip) ==
    LET stopped == IF lastGestureIs(last, CLOSED_FIST) THEN callSceneStop(a) ELSE a
        point == normalizeToCanvas(indexTip.x, indexTip.y)
    IN  IF startsNewLine(last, PINCH)
        THEN callCanvasStart(stopped, point)
        ELSE callCanvasDrawTo(stopped, point)

drawIn3D(a, last, indexTip, depth) ==
    LET stopped == IF lastGestureIs(last, PINCH) \/ lastGestureIs(last, OPEN_HAND)
                   THEN callCanvasStop(a) ELSE a
        coords == normalizeTo3D(indexTip.x, indexTip.y, depth)
    IN  IF startsNewLine(last, CLOSED_FIST)
        THEN callSceneStart(stopped, coords)
        ELSE callSceneAddPoint(stopped, coords)

updateDrawing(a, last, gestureState, hd) ==
    IF hd = Null
    THEN [stopCurrentMode(a) EXCEPT !.currentMode = "none"]
    ELSE LET indexTip == hd.landmarks[8]
         IN  IF gestureState.gesture = SPREAD_FINGERS
             THEN clearCurrentMode(a)
             ELSE IF gestureState.gesture = OPEN_HAND
             THEN callCanvasStop([a EXCEPT !.currentMode = modeForGesture(OPEN_HAND, @)])
             ELSE LET m == [a EXCEPT !.currentMode = modeForGesture(gestureState.gesture, @)]
                  IN  IF isDrawingFrame(gestureState)
                      THEN IF m.currentMode = "2D"
                           THEN drawIn2D(m, last, indexTip)
                           ELSE IF m.currentMode = "3D"
                           THEN drawIn3D(m, last, indexTip, gestureState.depth)
                           ELSE m
                      ELSE stopCurrentMode(m)

getGestureName(gesture) ==
    CASE gesture = NONE -> "None"
      [] gesture = OPEN_HAND -> "Open Hand"
      [] gesture = CLOSED_FIST -> "Closed Fist"
      [] gesture = PINCH -> "Pinch"
      [] gesture = SPREAD_FINGERS -> "Spread Fingers"
      [] OTHER -> "Unknown"

\* ModeIndicator.updateMode, as called by updateUI
updateUI(mode, gestureState) ==
    [mode |-> mode, gesture |-> getGestureName(gestureState.gesture)]

(***************************************************************************)
(* The observations the landmark source delivers                           *)
(***************************************************************************)
P3(x, y, z) == [x |-> x, y |-> y, z |-> z]

\* A hand: the index tip at tip, the other landmarks at the offsets of shape from it.
MkHand(shape, tip) ==
    [landmarks |-> [i \in TipIdx |->
        P3(tip.x + shape[i][1], tip.y + shape[i][2], tip.z + shape[i][3])]]

Off(w, t, m, r, p) ==
    [i \in TipIdx |-> CASE i = 0 -> w [] i = 4 -> t [] i = 8 -> <<0, 0, 0>>
                        [] i = 12 -> m [] i = 16 -> r [] i = 20 -> p]

\* thumb 0.02 from the index tip, the other fingers extended
PinchShape == Off(<<0, 300, 0>>, <<-20, 0, 0>>, <<80, 0, 0>>, <<160, 0, 0>>, <<240, 0, 0>>)

\* all tips curled next to the wrist, thumb 0.03 from the index tip
FistShape == Off(<<0, 20, 0>>, <<30, 0, 0>>, <<10, 20, 0>>, <<0, 30, 0>>, <<-10, 20, 0>>)

\* all tips curled next to the wrist, thumb touching the index tip
PinchedFistShape == Off(<<0, 20, 0>>, <<10, 0, 0>>, <<10, 20, 0>>, <<0, 30, 0>>, <<-10, 20, 0>>)

\* fingers extended, 0.1 apart
SpreadShape == Off(<<0, 300, 0>>, <<-100, 100, 0>>, <<100, 0, 0>>, <<200, 0, 0>>, <<300, 0, 0>>)

\* fingers extended, 0.05 apart
OpenShape == Off(<<0, 300, 0>>, <<-100, 100, 0>>, <<50, 0, 0>>, <<100, 0, 0>>, <<150, 0, 0>>)

\* half-curled: no confidence above one half
LooseShape == Off(<<0, 48, 0>>, <<30, 0, 0>>, <<48, 48, 0>>, <<0, 96, 0>>, <<-48, 48, 0>>)

Shapes == {PinchShape, FistShape, PinchedFistShape, SpreadShape, OpenShape, LooseShape}

IndexTips == {P3(500, 500, 0), P3(510, 520, 0)}

Hands == {MkHand(shape, tip) : shape \in Shapes, tip \in IndexTips}

\* A hand for the classifier alone: wrist at (300, wy), the index tip r to its right,
\* the middle, ring and pinky tips in a column g apart under it, the thumb tip t to
\* the left of the index tip.
FanHand(wy, r, g, t) ==
    [landmarks |-> [i \in TipIdx |->
        CASE i = 0 -> P3(300, wy, 0)
          [] i = 4 -> P3(300 + r - t, wy, 0)
          [] i = 8 -> P3(300 + r, wy, 0)
          [] i = 12 -> P3(300 + r, wy + g, 0)
          [] i = 16 -> P3(300 + r, wy + 2 * g, 0)
          [] i = 20 -> P3(300 + r, wy + 3 * g, 0)]]

FanHands ==
    {FanHand(wy, r, g, t) : wy \in {0, 600, 1000}, r \in {10, 40, 50, 300},
                            g \in {10, 75, 76}, t \in {0, 24, 25, 26, 60}}

\* Hands on the edges of the classifier's cases: a fist at the heights the depth
\* mapping turns at, a pinch distance of exactly pinchThreshold, a fist and an open
\* confidence of exactly one half, and open hands with every tip at least 0.15 from
\* the wrist and from its neighbours.
EdgeHands ==
    {FanHand(wy, 10, 10, 60) : wy \in {-100, 250, 500, 501, 750, 999, 1100}}
        \cup {FanHand(600, r, g, 50) : r \in {10, 300}, g \in {10, 76}}
        \cup {FanHand(600, 24, 20, 60), FanHand(600, 42, 10, 60), FanHand(600, 0, 30, 60)}
        \cup {FanHand(600, 300, g, t) : g \in {150, 160}, t \in {150, 200}}

\* The first n landmarks of a hand: what a results array of n landmarks maps to.
Truncated(hd, n) == [landmarks |-> [i \in {j \in TipIdx : j < n} |-> hd.landmarks[i]]]

\* Observations with fewer than 21 landmarks.
MalformedHands ==
    {Truncated(hd, n) : hd \in {FanHand(600, 10, 10, 0), FanHand(600, 300, 76, 60)},
                        n \in {0, 1, 5, 9, 13, 17, 20}}

(***************************************************************************)
(* Bounds of the model                                                     *)
(***************************************************************************)
\* observations a session is followed for
MaxFrames == 6

\* direct calls of detect a detector is followed for
MaxDetects == 2

\* detect is a function of the observation alone: its values on the observations
\* the model delivers, computed once.
DetectTable ==
    [hd \in Hands \cup FanHands \cup EdgeHands \cup MalformedHands \cup {Null} |-> detectState(hd)]

\* A detector with hysteresis: a hand with no recognised gesture keeps the gesture
\* of the frame before.
detectGesture_sticky(hd) ==
    IF hd # Null /\ DetectTable[hd] # TypeError /\ DetectTable[hd].gesture = NONE
    THEN [DetectTable[hd] EXCEPT !.gesture = detector.previousGesture]
    ELSE DetectTable[hd]

detectGesture(hd) == DetectTable[hd]

handleHandData(hd) ==
    LET gestureState == detectGesture(hd)
        a == updateDrawing([currentMode |-> currentMode, canvas2D |-> canvas2D,
                            scene3D |-> scene3D, calls |-> <<>>],
                           lastGestureState, gestureState, hd)
    IN  /\ frames < MaxFrames
        /\ frames' = frames + 1
        /\ currentMode' = a.currentMode
        /\ canvas2D' = a.canvas2D
        /\ scene3D' = a.scene3D
        /\ calls' = a.calls
        /\ detector' = detectHistory(detector, hd, gestureState)
        /\ modeIndicator' = updateUI(a.currentMode, gestureState)
        /\ lastGestureState' = gestureState
        /\ handData' = hd
        /\ UNCHANGED <<operation, browser, startup, handTracker>>

(***************************************************************************)
(* The application: one step per frame the hand tracker delivers           *)
(***************************************************************************)
Init ==
    /\ currentMode = "none"
    /\ lastGestureState = Null
    /\ canvas2D = NewCanvas2D
    /\ scene3D = NewScene3D
    /\ detector = NewGestureDetector
    /\ modeIndicator = [mode |-> "None", gesture |-> "None"]
    /\ handData = Null
    /\ frames = 0
    /\ calls = <<>>
    /\ operation = [name |-> "constructor"]
    /\ browser = NewBrowser
    /\ startup = [pc |-> "constructed", attempts |-> 0]
    /\ handTracker = NewHandTracker

\* HandTracker.handleResults with a hand in the results
HandDetected == \E hd \in Hands : handleHandData(hd)

\* HandTracker.handleResults with no hand in the results
NoHandDetected == handleHandData(Null)

Next == HandDetected \/ NoHandDetected

Spec == Init /\ [][Next]_vars

(***************************************************************************)
(* The classifier alone: detect called on the global detector              *)
(***************************************************************************)
detect(hd) ==
    LET gestureState == detectGesture(hd)
    IN  /\ frames < MaxDetects
        /\ frames' = frames + 1
        /\ handData' = hd
        /\ lastGestureState' = gestureState
        /\ detector' = detectHistory(detector, hd, gestureState)
        /\ UNCHANGED <<currentMode, canvas2D, scene3D, modeIndicator, calls, operation,
                       browser, startup, handTracker>>

DetectHand == \E hd \in FanHands \cup EdgeHands : detect(hd)

DetectNoHand == detect(Null)

DetectNext == DetectHand \/ DetectNoHand

DetectSpec == Init /\ [][DetectNext]_vars

\* The classifier given results arrays of any length.
DetectMalformed == \E hd \in MalformedHands : detect(hd)

MalformedNext == DetectNext \/ DetectMalformed

MalformedSpec == Init /\ [][MalformedNext]_vars

(***************************************************************************)
(* The accumulators alone: their methods called in any order, each call    *)
(* made on the Canvas2D and on the Scene3D                                 *)
(***************************************************************************)
\* canvas points, in 1/1000 pixel
Points2D == <<[x |-> 100000, y |-> 100000], [x |-> 120000, y |-> 110000]>>

\* world points, in 1/1000 world unit
Points3D == <<P3(0, 0, 0), P3(8000, 4000, -2000)>>

\* method calls an accumulator is followed for
MaxOps == 7

\* The last committed point of the open stroke, null without one.
lastCommitted2D == canvas2D.lastPoint

lastCommitted3D ==
    IF scene3D.currentLine = 0 THEN Null ELSE scene3D.lines[scene3D.currentLine].lastPoint

\* The raw points a caller passes to addPoint: one of the fixed points, the last
\* committed point again, or a point 0.006 beside it.
RawKinds == {"first", "second", "last", "near"}

raw2D(kind) ==
    CASE kind = "first" -> Points2D[1]
      [] kind = "second" -> Points2D[2]
      [] kind = "last" -> IF lastCommitted2D = Null THEN Points2D[1] ELSE lastCommitted2D
      [] kind = "near" -> IF lastCommitted2D = Null THEN Points2D[2]
                          ELSE [lastCommitted2D EXCEPT !.x = @ + 6]

raw3D(kind) ==
    CASE kind = "first" -> Points3D[1]
      [] kind = "second" -> Points3D[2]
      [] kind = "last" -> IF lastCommitted3D = Null THEN Points3D[1] ELSE lastCommitted3D
      [] kind = "near" -> IF lastCommitted3D = Null THEN Points3D[2]
                          ELSE [lastCommitted3D EXCEPT !.x = @ + 6]

AccUnchanged ==
    UNCHANGED <<currentMode, lastGestureState, detector, modeIndicator, handData, calls,
                browser, startup, handTracker>>

\* Canvas2D.startDrawing(point) and Scene3D.startDrawing(x, y, z)
AccStartDrawing ==
    \E i \in 1..2 :
        /\ frames < MaxOps
        /\ frames' = frames + 1
        /\ canvas2D' = Canvas2D_startDrawing(canvas2D, Points2D[i])
        /\ scene3D' = Scene3D_startDrawing(scene3D, Points3D[i])
        /\ operation' = [name |-> "startDrawing", point2D |-> Points2D[i],
                                                  point3D |-> Points3D[i]]
        /\ AccUnchanged

\* Canvas2D.drawTo(point) and Scene3D.addPoint(x, y, z)
AccAddPoint ==
    \E kind \in RawKinds :
        /\ frames < MaxOps
        /\ frames' = frames + 1
        /\ canvas2D' = Canvas2D_drawTo(canvas2D, raw2D(kind))
        /\ scene3D' = Scene3D_addPoint(scene3D, raw3D(kind))
        /\ operation' = [name |-> "addPoint", point2D |-> raw2D(kind),
                                              point3D |-> raw3D(kind)]
        /\ AccUnchanged

\* Canvas2D.stopDrawing() and Scene3D.stopDrawing()
AccStopDrawing ==
    /\ frames < MaxOps
    /\ frames' = frames + 1
    /\ canvas2D' = Canvas2D_stopDrawing(canvas2D)
    /\ scene3D' = Scene3D_stopDrawing(scene3D)
    /\ operation' = [name |-> "stopDrawing"]
    /\ AccUnchanged

\* Canvas2D.clear() and Scene3D.clear()
AccClear ==
    /\ frames < MaxOps
    /\ frames' = frames + 1
    /\ canvas2D' = Canvas2D_clear(canvas2D)
    /\ scene3D' = Scene3D_clear(scene3D)
    /\ operation' = [name |-> "clear"]
    /\ AccUnchanged

AccNext == AccStartDrawing \/ AccAddPoint \/ AccStopDrawing \/ AccClear

AccSpec == Init /\ [][AccNext]_vars

(***************************************************************************)
(* The accumulators given the same input: every startDrawing and addPoint  *)
(* is made with one point on the Canvas2D and, at z = 0, on the Scene3D    *)
(***************************************************************************)
SamePoints == {[x |-> 100000, y |-> 100000], [x |-> 120000, y |-> 110000],
               [x |-> 100000, y |-> 130000]}

\* method calls the two accumulators are followed for
MaxSameOps == 5

\* Canvas2D.startDrawing(point) and Scene3D.startDrawing(point.x, point.y, 0)
SameStartDrawing ==
    \E point \in SamePoints :
        /\ frames < MaxSameOps
        /\ frames' = frames + 1
        /\ canvas2D' = Canvas2D_startDrawing(canvas2D, point)
        /\ scene3D' = Scene3D_startDrawing(scene3D, P3(point.x, point.y, 0))
        /\ operation' = [name |-> "startDrawing", point2D |-> point,
                         point3D |-> P3(point.x, point.y, 0), raws |-> {point}]
        /\ AccUnchanged

\* Canvas2D.drawTo(point) and Scene3D.addPoint(point.x, point.y, 0)
SameAddPoint ==
    \E point \in SamePoints :
        /\ frames < MaxSameOps
        /\ frames' = frames + 1
        /\ canvas2D' = Canvas2D_drawTo(canvas2D, point)
        /\ scene3D' = Scene3D_addPoint(scene3D, P3(point.x, point.y, 0))
        /\ operation' = [name |-> "addPoint", point2D |-> point,
                                              point3D |-> P3(point.x, point.y, 0)]
        /\ AccUnchanged

SameSpec == Init /\ [][SameStartDrawing \/ SameAddPoint]_vars

\* Canvas2D.drawTo(point) on an open stroke, with CONFIG.drawing.smoothingFactor
\* holding 0, 0.7 or 1; operation.raws collects the start point and the raw points
\* of the stroke.
SmoothAddPoint ==
    \E point \in SamePoints, factor \in {0, 700, 1000} :
        /\ frames < MaxSameOps
        /\ canvas2D.isDrawing
        /\ frames' = frames + 1
        /\ canvas2D' = Canvas2D_drawToWith(canvas2D, point, factor)
        /\ operation' = [name |-> "addPoint", point2D |-> point,
                         raws |-> operation.raws \cup {point}]
        /\ UNCHANGED scene3D
        /\ AccUnchanged

SmoothSpec == Init /\ [][SameStartDrawing \/ SmoothAddPoint]_vars

(***************************************************************************)
(* The hand tracker and the page: the steps of the browser's event loop    *)
(***************************************************************************)
\* requestAnimationFrame handles a tracker is followed for
MaxRequested == 3

\* A microtask is waiting to run.
continuationPending ==
    \E i \in 1..Len(handTracker.starts) : canResume(handTracker, i, browser.readyState)

\* The continuation of the first start() call whose await can resume.
StartContinues ==
    \E i \in 1..Len(handTracker.starts) :
        /\ canResume(handTracker, i, browser.readyState)
        /\ \A j \in 1..(i - 1) : ~canResume(handTracker, j, browser.readyState)
        /\ handTracker' = resumeStart(handTracker, i, browser.readyState)
        /\ UNCHANGED <<currentMode, lastGestureState, canvas2D, scene3D, detector,
                       modeIndicator, handData, frames, calls, operation, browser, startup>>

\* The browser runs the callbacks requested for this animation frame.
AnimationFrame ==
    /\ handTracker.callbacks # {}
    /\ handTracker.requested < MaxRequested
    /\ ~continuationPending
    /\ handTracker' = runCallbacks([handTracker EXCEPT !.callbacks = {}],
                                   Cardinality(handTracker.callbacks), browser.readyState)
    /\ UNCHANGED <<currentMode, lastGestureState, canvas2D, scene3D, detector,
                   modeIndicator, handData, frames, calls, operation, browser, startup>>

\* The script tag that defines window.Hands finishes loading.
ScriptLoads ==
    /\ ~browser.Hands
    /\ browser' = [browser EXCEPT !.Hands = TRUE]
    /\ UNCHANGED <<currentMode, lastGestureState, canvas2D, scene3D, detector,
                   modeIndicator, handData, frames, calls, operation, startup, handTracker>>

\* waitForMediaPipeHands wakes from its 100 ms sleep: the time is up, window.Hands
\* is there (initializeMediaPipe creates the instance), or it sleeps again.
MediaPipePoll ==
    /\ handTracker.initializationPromise = "polling"
    /\ ~continuationPending
    /\ \/ handTracker' = [handTracker EXCEPT !.initializationPromise = "rejected"]
       \/ /\ browser.Hands
          /\ handTracker' = [handTracker EXCEPT !.initializationPromise = "creating",
                                                 !.hands = [instance |-> "Hands"]]
    /\ UNCHANGED <<currentMode, lastGestureState, canvas2D, scene3D, detector,
                   modeIndicator, handData, frames, calls, operation, browser, startup>>

\* initializeMediaPipe after its one-second wait: setOptions, onResults, done.
MediaPipeInitialized ==
    /\ handTracker.initializationPromise = "creating"
    /\ ~continuationPending
    /\ handTracker' = [handTracker EXCEPT !.initializationPromise = "fulfilled"]
    /\ UNCHANGED <<currentMode, lastGestureState, canvas2D, scene3D, detector,
                   modeIndicator, handData, frames, calls, operation, browser, startup>>

\* The video element has enough data to play through.
VideoData ==
    /\ browser.readyState = HAVE_METADATA
    /\ ~continuationPending
    /\ browser' = [browser EXCEPT !.readyState = HAVE_ENOUGH_DATA]
    /\ UNCHANGED <<currentMode, lastGestureState, canvas2D, scene3D, detector,
                   modeIndicator, handData, frames, calls, operation, startup, handTracker>>

(***************************************************************************)
(* A HandTracker on its own: start() and stop() called at any time, also   *)
(* between a promise settling and the continuation that waits for it, on a *)
(* video element that loads at any time                                    *)
(***************************************************************************)
\* start() calls a tracker is followed for
MaxStarts == 2

TrackerUnchanged ==
    UNCHANGED <<currentMode, lastGestureState, canvas2D, scene3D, detector, modeIndicator,
                handData, frames, calls, startup>>

CallStart ==
    /\ Len(handTracker.starts) < MaxStarts
    /\ handTracker' = HandTracker_start(handTracker)
    /\ operation' = [name |-> "start"]
    /\ UNCHANGED browser
    /\ TrackerUnchanged

CallStop ==
    /\ handTracker' = HandTracker_stop(handTracker)
    /\ operation' = [name |-> "stop"]
    /\ UNCHANGED browser
    /\ TrackerUnchanged

\* The video element has the dimensions of its stream: loadedmetadata fires.
VideoMetadata ==
    /\ browser.readyState = HAVE_NOTHING
    /\ ~continuationPending
    /\ browser' = [browser EXCEPT !.readyState = HAVE_METADATA]
    /\ UNCHANGED <<operation, handTracker>>
    /\ TrackerUnchanged

TrackerSpec ==
    Init /\ [][CallStart \/ CallStop \/ ScriptLoads \/ MediaPipePoll \/ MediaPipeInitialized
                  \/ VideoMetadata \/ VideoData \/ StartContinues \/ AnimationFrame]_vars

(***************************************************************************)
(* main.ts: NeonHandControlApp.initialize, from the call at module load to *)
(* the frames the tracker hands to handleHandData                          *)
(***************************************************************************)
\* while (attempts < 50 && !window.Hands)
maxAttempts == 50

pollAgain(attempts, windowHands) == attempts < maxAttempts /\ ~windowHands

\* An initialize that goes on to the camera whether the detector is there or not.
afterPolling_noCheck(windowHands) == "camera"

\* After the loop: throw without window.Hands, else go on to camera.initialize().
afterPolling(windowHands) == IF ~windowHands THEN "failed" ELSE "camera"

StartupUnchanged ==
    UNCHANGED <<currentMode, lastGestureState, canvas2D, scene3D, detector, modeIndicator,
                handData, frames, calls, operation>>

\* app.initialize() up to its first await.
Initialize ==
    /\ startup.pc = "constructed"
    /\ startup' = [startup EXCEPT !.pc = IF browser.Hands THEN "camera" ELSE "poll"]
    /\ UNCHANGED <<browser, handTracker>>
    /\ StartupUnchanged

\* The 100 ms timer of the polling loop fires: attempts++, then the loop test.
PollTimer ==
    /\ startup.pc = "poll"
    /\ LET attempts == startup.attempts + 1
           pc == IF pollAgain(attempts, browser.Hands) THEN "poll"
                 ELSE afterPolling(browser.Hands)
       IN  /\ startup' = [pc |-> pc, attempts |-> attempts]
           /\ browser' = IF pc = "failed" THEN [browser EXCEPT !.alerts = @ + 1]
                         ELSE browser
    /\ UNCHANGED handTracker
    /\ StartupUnchanged

\* camera.initialize() resolves (stream obtained, loadedmetadata fired, playing);
\* initialize connects the video, registers the callback and waits for the video.
CameraInitialized ==
    /\ startup.pc = "camera"
    /\ startup' = [startup EXCEPT !.pc = "video"]
    /\ browser' = [browser EXCEPT !.readyState = Max(@, HAVE_METADATA)]
    /\ handTracker' = [handTracker EXCEPT !.callback = [calls |-> "handleHandData"]]
    /\ StartupUnchanged

\* camera.initialize() rejects (no permission, no metadata within ten seconds).
CameraFails ==
    /\ startup.pc = "camera"
    /\ startup' = [startup EXCEPT !.pc = "failed"]
    /\ browser' = [browser EXCEPT !.alerts = @ + 1]
    /\ UNCHANGED handTracker
    /\ StartupUnchanged

\* waitForVideoReady resolves (enough data, or its three-second fallback) and
\* initialize calls handTracker.start().
VideoReady ==
    /\ startup.pc = "video"
    /\ startup' = [startup EXCEPT !.pc = "tracker"]
    /\ handTracker' = HandTracker_start(handTracker)
    /\ UNCHANGED browser
    /\ StartupUnchanged

\* The promise of handTracker.start() settles.
StartSettles ==
    /\ startup.pc = "tracker"
    /\ handTracker.starts[1] \in {"returned", "thrown"}
    /\ startup' = [startup EXCEPT !.pc = IF handTracker.starts[1] = "returned"
                                         THEN "complete" ELSE "failed"]
    /\ browser' = IF handTracker.starts[1] = "thrown" THEN [browser EXCEPT !.alerts = @ + 1]
                   ELSE browser
    /\ UNCHANGED handTracker
    /\ StartupUnchanged

\* The detector returns the results of a frame sent to it: handleResults calls
\* the registered callback.
HandsResults ==
    /\ handTracker.sentFrames > frames
    /\ handTracker.callback # Null
    /\ \E hd \in {MkHand(PinchShape, P3(500, 500, 0)), Null} : handleHandData(hd)

StartupNext ==
    \/ Initialize
    \/ PollTimer
    \/ CameraInitialized
    \/ CameraFails
    \/ VideoReady
    \/ StartSettles
    \/ ScriptLoads
    \/ VideoData
    \/ MediaPipePoll
    \/ MediaPipeInitialized
    \/ StartContinues
    \/ AnimationFrame
    \/ HandsResults

\* initialize() is called when the module loads, and a timer that was set fires.
StartupSpec ==
    Init /\ [][StartupNext]_vars /\ WF_vars(Initialize) /\ WF_vars(PollTimer)

(***************************************************************************)
(* The orchestrator with the Clear button: clicks arrive between frames    *)
(***************************************************************************)
ClickHands ==
    {MkHand(PinchShape, tip) : tip \in IndexTips} \cup {MkHand(FistShape, P3(500, 500, 0))}

\* A frame arrives: a hand, or no hand.
ClickFrame == \E hd \in ClickHands \cup {Null} : handleHandData(hd)

\* The click listener of the Clear button: onClear2D(), then onClear3D().
ClearClick ==
    /\ canvas2D' = Canvas2D_clear(canvas2D)
    /\ scene3D' = Scene3D_clear(scene3D)
    /\ operation' = [name |-> "click"]
    /\ UNCHANGED <<currentMode, lastGestureState, detector, modeIndicator, handData,
                   frames, calls, browser, startup, handTracker>>

ClickSpec == Init /\ [][ClickFrame \/ ClearClick]_vars

(***************************************************************************)
(* Properties of the orchestrator                                          *)
(***************************************************************************)
\* A step that processes one observation.
FrameStep == frames' = frames + 1

\* The accumulators report an open stroke.
Open2D == canvas2D.isDrawing

Open3D == scene3D.currentLine # 0

\* The last observation was a hand classified as gesture.
Classified(gesture) ==
    frames > 0 /\ handData # Null /\ lastGestureState.gesture = gesture

IsDraw2DCall(c) == c \in {"canvas2D.startDrawing", "canvas2D.drawTo"}

IsOpeningCall(c) ==
    c \in {"canvas2D.startDrawing", "canvas2D.drawTo", "scene3D.startDrawing", "scene3D.addPoint"}

\* C1: after any sequence of frames at most one of the 2D and the 3D accumulator
\* has an open stroke.
C1_ModeExclusivity == ~(Open2D /\ Open3D)

\* A 2D stroke is open after a closed-fist frame switched the mode to 3D.
C1_Witness == Classified(CLOSED_FIST) /\ currentMode = "3D" /\ Open2D

\* C2: a frame classified ClosedFist drives the 3D accumulator: after it a 3D stroke
\* is open, started by Scene3D.startDrawing or continued by Scene3D.addPoint.
C2_FistDrawsIn3D ==
    Classified(CLOSED_FIST) =>
        /\ Open3D
        /\ \E i \in 1..Len(calls) : calls[i] \in {"scene3D.startDrawing", "scene3D.addPoint"}

\* C3: after any frame that is not classified Pinch (another gesture, or no hand)
\* the 2D accumulator has no open stroke.
C3_NoPinchNoOpen2D ==
    (frames > 0 /\ lastGestureState.gesture # PINCH) => ~Open2D

\* C4: when the 2D canvas holds drawn content, processing a frame classified
\* SpreadFingers leaves it with no drawn content and no open stroke.
C4_SpreadClearsCanvas ==
    [][(FrameStep /\ handData' # Null /\ lastGestureState'.gesture = SPREAD_FINGERS
          /\ canvas2D.ctx # {})
        => (canvas2D'.ctx = {} /\ ~canvas2D'.isDrawing)]_vars

\* C5: on a Pinch frame the orchestrator calls Canvas2D.startDrawing, with the index
\* tip mapped to canvas space, when the previous frame's state was not Pinch or had
\* no drawing intent (also on the first frame and after a no-hand frame), and
\* Canvas2D.drawTo otherwise: one startDrawing, then only drawTo calls, per run.
C5_PinchStartsThenContinues ==
    [][(FrameStep /\ handData' # Null /\ lastGestureState'.gesture = PINCH)
        => LET tip == handData'.landmarks[8]
               fresh == \/ lastGestureState = Null
                        \/ lastGestureState.gesture # PINCH
                        \/ ~lastGestureState.isDrawing
           IN  IF fresh
               THEN /\ SelectSeq(calls', IsDraw2DCall) = <<"canvas2D.startDrawing">>
                    /\ canvas2D'.isDrawing
                    /\ canvas2D'.smoothedPoints =
                           <<[x |-> tip.x * canvasWidth, y |-> tip.y * canvasHeight]>>
               ELSE SelectSeq(calls', IsDraw2DCall) = <<"canvas2D.drawTo">>]_vars

\* The third frame of a held pinch: the path has grown by drawTo calls alone.
C5_Witness ==
    /\ Classified(PINCH)
    /\ calls = <<"canvas2D.drawTo">>
    /\ Len(canvas2D.smoothedPoints) >= 3
    /\ Len(detector.gestureHistory) >= 3
    /\ \A i \in 1..Len(detector.gestureHistory) : detector.gestureHistory[i] = PINCH

\* C6: a 2D stroke is opened, and a point is appended to a 2D stroke, only while a
\* frame classified Pinch is processed; a frame classified OpenHand opens nothing,
\* appends nothing and leaves the 2D stroke closed.
C6_DrawsOnlyWithPinch ==
    [][FrameStep =>
        /\ (handData' = Null \/ lastGestureState'.gesture # PINCH)
             => /\ SelectSeq(calls', IsDraw2DCall) = <<>>
                /\ canvas2D'.isDrawing => canvas2D.isDrawing
                /\ Len(canvas2D'.smoothedPoints) <= Len(canvas2D.smoothedPoints)
        /\ (handData' # Null /\ lastGestureState'.gesture = OPEN_HAND)
             => /\ SelectSeq(calls', IsOpeningCall) = <<>>
                /\ ~canvas2D'.isDrawing]_vars

\* An open-hand frame ended a stroke that had drawn on the canvas.
C6_Witness ==
    /\ Classified(OPEN_HAND)
    /\ calls = <<"canvas2D.stopDrawing">>
    /\ canvas2D.ctx # {}
    /\ ~Open2D

\* C7: when the observation is null the orchestrator stops the stroke of the
\* accumulator of the current mode, sets currentMode to none and does nothing else:
\* no clear, no start, no point appended, the other accumulator untouched.
C7_NoHandStopsCurrentMode ==
    [][(FrameStep /\ handData' = Null) =>
        /\ currentMode' = "none"
        /\ currentMode = "2D" =>
             /\ calls' = <<"canvas2D.stopDrawing">>
             /\ ~canvas2D'.isDrawing
             /\ canvas2D.ctx \subseteq canvas2D'.ctx
             /\ scene3D' = scene3D
        /\ currentMode = "3D" =>
             /\ calls' = <<"scene3D.stopDrawing">>
             /\ scene3D'.currentLine = 0
             /\ Len(scene3D'.lines) = Len(scene3D.lines)
             /\ canvas2D' = canvas2D
        /\ currentMode = "none" =>
             /\ calls' = <<>>
             /\ canvas2D' = canvas2D
             /\ scene3D' = scene3D]_vars

\* The hand left the frame during a stroke that had drawn on the canvas.
C7_Witness ==
    /\ frames > 0
    /\ handData = Null
    /\ calls = <<"canvas2D.stopDrawing">>
    /\ currentMode = "none"
    /\ canvas2D.ctx # {}
    /\ ~Open2D

\* C8: after each frame currentMode is 3D if the frame was classified ClosedFist, 2D
\* if Pinch or OpenHand, none if the observation was null, and what it was before
\* the frame if SpreadFingers or None.
C8_ModeAfterFrame ==
    [][FrameStep =>
        currentMode' =
            IF handData' = Null THEN "none"
            ELSE IF lastGestureState'.gesture = CLOSED_FIST THEN "3D"
            ELSE IF lastGestureState'.gesture \in {PINCH, OPEN_HAND} THEN "2D"
            ELSE currentMode]_vars

\* A hand with no recognised gesture was seen in 3D mode, and the mode is still 3D.
C8_Witness == Classified(NONE) /\ currentMode = "3D"

\* C9: a frame classified SpreadFingers calls clear() on the surface of the current
\* mode only: currentMode is unchanged, the other surface is untouched, no stroke is
\* opened and no point appended; with currentMode none neither surface changes.
C9_SpreadClearsCurrentModeOnly ==
    [][(FrameStep /\ handData' # Null /\ lastGestureState'.gesture = SPREAD_FINGERS) =>
        /\ currentMode' = currentMode
        /\ SelectSeq(calls', IsOpeningCall) = <<>>
        /\ currentMode = "2D" =>
             /\ calls' = <<"canvas2D.clear">>
             /\ ~canvas2D'.isDrawing
             /\ scene3D' = scene3D
        /\ currentMode = "3D" =>
             /\ calls' = <<"scene3D.clear">>
             /\ scene3D' = NewScene3D
             /\ canvas2D' = canvas2D
        /\ currentMode = "none" =>
             /\ calls' = <<>>
             /\ canvas2D' = canvas2D
             /\ scene3D' = scene3D]_vars

\* Spread fingers in 3D mode: the scene was cleared, the drawn 2D canvas kept.
C9_Witness ==
    /\ Classified(SPREAD_FINGERS)
    /\ currentMode = "3D"
    /\ calls = <<"scene3D.clear">>
    /\ canvas2D.ctx # {}

(***************************************************************************)
(* Properties of the classifier                                            *)
(***************************************************************************)
\* The four confidences detect computes for the landmarks.
confidences(landmarks) ==
    LET pinch == detectPinch(landmarks).confidence
        fist == detectFist(landmarks).confidence
    IN  <<pinch, fist, detectSpread(landmarks).confidence,
          detectOpen(landmarks, fist, pinch).confidence>>

priority == <<PINCH, CLOSED_FIST, SPREAD_FINGERS, OPEN_HAND>>

\* C10: detect returns the first of Pinch, ClosedFist, SpreadFingers, OpenHand whose
\* confidence exceeds 0.5, and None when none does; with the pinch and the fist
\* confidence both above 0.5 the result is Pinch.
C10_FirstMatchWins ==
    (frames > 0 /\ handData # Null) =>
        LET conf == confidences(handData.landmarks)
            matching == {i \in 1..4 : conf[i] > 500}
            gesture == lastGestureState.gesture
        IN  /\ matching = {} => gesture = NONE
            /\ matching # {} =>
                 \E i \in matching : /\ gesture = priority[i]
                                     /\ \A j \in matching : i <= j
            /\ (conf[1] > 500 /\ conf[2] > 500) => gesture = PINCH

\* A hand whose pinch and fist confidences both exceed 0.5 was classified.
C10_Witness ==
    /\ frames > 0
    /\ handData # Null
    /\ confidences(handData.landmarks)[1] > 500
    /\ confidences(handData.landmarks)[2] > 500
    /\ lastGestureState.gesture = PINCH

\* The gesture the cascade reaches from position i on: the first of priority[i..4]
\* whose confidence exceeds one half, None without one.
RECURSIVE firstAbove(_, _)
firstAbove(conf, i) ==
    IF i > 4 THEN NONE
    ELSE IF conf[i] > 500 THEN priority[i]
    ELSE firstAbove(conf, i + 1)

\* C11: the match test is strict: a gesture whose confidence is exactly 0.5 does not
\* match, and with no higher-priority match resolution goes on to the next gesture
\* below it; a pinch distance exactly equal to pinchThreshold gives a pinch
\* confidence of 0 and a frame that is not classified Pinch.
C11_StrictThreshold ==
    (frames > 0 /\ handData # Null) =>
        LET landmarks == handData.landmarks
            conf == confidences(landmarks)
            gesture == lastGestureState.gesture
        IN  /\ \A i \in 1..4 :
                 (conf[i] = 500 /\ \A j \in 1..(i - 1) : conf[j] <= 500)
                     => (gesture # priority[i] /\ gesture = firstAbove(conf, i + 1))
            /\ calculateDistance(landmarks[4], landmarks[8]) = pinchThreshold
                 => (conf[1] = 0 /\ gesture # PINCH)

\* A hand whose pinch confidence is exactly 0.5 was classified ClosedFist.
C11_Witness ==
    /\ frames > 0
    /\ handData # Null
    /\ confidences(handData.landmarks)[1] = 500
    /\ lastGestureState.gesture = CLOSED_FIST

\* A hand held open: not pinched, all five tips at least 0.15 from the wrist and
\* adjacent tips (thumb to pinky) at least 0.15 apart.
HeldOpen(landmarks) ==
    /\ detectPinch(landmarks).confidence <= 500
    /\ \A i \in TipIdx \ {0} : calculateDistance(landmarks[0], landmarks[i]) >= 150
    /\ \A i \in {4, 8, 12, 16} : calculateDistance(landmarks[i], landmarks[i + 4]) >= 150

\* C12 as stated: a hand held open, with all tips at least 0.15 from the wrist and
\* adjacent tips at least 0.15 apart, is classified OpenHand with isDrawing false.
C12_HeldOpenIsOpenHand ==
    (frames > 0 /\ handData # Null /\ HeldOpen(handData.landmarks)) =>
        (lastGestureState.gesture = OPEN_HAND /\ ~lastGestureState.isDrawing)

\* C12, amended: such a hand is classified SpreadFingers with confidence 1 and
\* isDrawing false; a hand that is not pinched, has its tips at least 0.15 from the
\* wrist and two adjacent finger tips (index to pinky) at most 0.075 apart is
\* classified OpenHand with isDrawing false.
C12_HeldOpenIsSpread ==
    (frames > 0 /\ handData # Null) =>
        LET landmarks == handData.landmarks
            extended == \A i \in TipIdx \ {0} :
                           calculateDistance(landmarks[0], landmarks[i]) >= 150
            notPinched == detectPinch(landmarks).confidence <= 500
            closeTips == \E i \in {8, 12, 16} :
                            calculateDistance(landmarks[i], landmarks[i + 4]) <= 75
        IN  /\ HeldOpen(landmarks) =>
                 /\ lastGestureState.gesture = SPREAD_FINGERS
                 /\ lastGestureState.confidence = Unit
                 /\ ~lastGestureState.isDrawing
            /\ (extended /\ notPinched /\ closeTips) =>
                 /\ lastGestureState.gesture = OPEN_HAND
                 /\ ~lastGestureState.isDrawing

\* A hand held open with its tips 0.15 apart was classified SpreadFingers.
C12_Witness ==
    /\ frames > 0
    /\ handData # Null
    /\ HeldOpen(handData.landmarks)
    /\ lastGestureState.gesture = SPREAD_FINGERS

\* C13: an observation with fewer than 21 landmarks, one of the landmarks 0, 4, 8,
\* 12, 16, 20 missing, is treated as no hand: detect returns the None state
\* (confidence 0, isDrawing false) and does not throw.
C13_MalformedIsNoHand ==
    (frames > 0 /\ handData # Null /\ ~hasLandmarks(handData)) =>
        /\ lastGestureState # TypeError
        /\ lastGestureState = createState(NONE, 0, FALSE, 500, Undefined)

\* C14: the state detect returns has isDrawing true exactly when the gesture is
\* Pinch or ClosedFist, depth 0.5 for every gesture but ClosedFist and confidence 0
\* for None; a null observation returns None, confidence 0, isDrawing false,
\* depth 0.5.
C14_StateFields ==
    frames > 0 =>
        LET state == lastGestureState
        IN  /\ state.isDrawing <=> state.gesture \in {PINCH, CLOSED_FIST}
            /\ state.gesture # CLOSED_FIST => state.depth = 500
            /\ state.gesture = NONE => state.confidence = 0
            /\ handData = Null =>
                 /\ state.gesture = NONE
                 /\ state.confidence = 0
                 /\ ~state.isDrawing
                 /\ state.depth = 500

\* A SpreadFingers state: confidence above one half, no drawing intent, depth 0.5.
C14_Witness ==
    /\ Classified(SPREAD_FINGERS)
    /\ lastGestureState.confidence > 500
    /\ ~lastGestureState.isDrawing
    /\ lastGestureState.depth = 500

\* C15: for a frame classified ClosedFist depth is (1 - wrist.y) * depthSensitivity
\* clamped to [0, 1] after the multiplication: with depthSensitivity 2.0 it is 1 for
\* every wrist.y <= 0.5, 0 for wrist.y >= 1 and 2 * (1 - wrist.y) between.
C15_DepthMapping ==
    Classified(CLOSED_FIST) =>
        LET wristY == handData.landmarks[0].y
            depth == lastGestureState.depth
        IN  /\ depth >= 0
            /\ depth <= Unit
            /\ depth = IF wristY <= 500 THEN Unit
                       ELSE IF wristY >= Unit THEN 0
                       ELSE 2 * (Unit - wristY)

\* A fist at the top of the frame: depth 1.
C15_Witness ==
    /\ Classified(CLOSED_FIST)
    /\ handData.landmarks[0].y = 0
    /\ lastGestureState.depth = Unit

OpStep(name) == frames' = frames + 1 /\ operation'.name = name

\* The open line of the scene.
currentLine3D == scene3D.lines[scene3D.currentLine]

\* C17: startDrawing(point), called with or without a stroke open, leaves one open
\* stroke whose content is [point] and whose last committed point is point; on the
\* 2D accumulator the smoothing buffer is [point].
C17_StartDrawingResets ==
    [][OpStep("startDrawing") =>
        LET point2D == operation'.point2D
            point3D == operation'.point3D
        IN  /\ canvas2D'.isDrawing
            /\ canvas2D'.smoothedPoints = <<point2D>>
            /\ canvas2D'.lastPoint = point2D
            /\ canvas2D'.pointBuffer = <<point2D>>
            /\ scene3D'.currentLine = Len(scene3D'.lines)
            /\ Len(scene3D'.lines) = Len(scene3D.lines) + 1
            /\ currentLine3D'.isDrawing
            /\ currentLine3D'.points = <<point3D>>
            /\ currentLine3D'.lastPoint = point3D]_vars

\* startDrawing was called on a stroke that was open and had grown.
C17_Witness ==
    /\ operation.name = "startDrawing"
    /\ Len(scene3D.lines) >= 2
    /\ Len(scene3D.lines[Len(scene3D.lines) - 1].points) >= 2
    /\ scene3D.lines[Len(scene3D.lines) - 1].isDrawing
    /\ canvas2D.ctx # {}
    /\ canvas2D.smoothedPoints = <<operation.point2D>>

\* C18: addPoint with no stroke open changes no state, and a stopDrawing directly
\* after a stopDrawing leaves the state as the first left it, on the Canvas2D and
\* on the Scene3D.
C18_OutOfSequenceNoOps ==
    [][/\ (OpStep("addPoint") /\ ~Open2D) => canvas2D' = canvas2D
       /\ (OpStep("addPoint") /\ ~Open3D) => scene3D' = scene3D
       /\ (OpStep("stopDrawing") /\ operation.name = "stopDrawing")
             => (canvas2D' = canvas2D /\ scene3D' = scene3D)]_vars

\* addPoint was called with no stroke open, after a stroke that had drawn was closed.
C18_Witness ==
    /\ operation.name = "addPoint"
    /\ ~Open2D
    /\ ~Open3D
    /\ canvas2D.ctx # {}
    /\ Len(scene3D.lines) = 1
    /\ frames >= 5

\* C19 as stated: in an open stroke an addPoint whose raw point lies within
\* minDistance of the last committed point appends nothing, on the 2D accumulator
\* as on the 3D one.
C19_RawWithinGateNeverAppends ==
    [][OpStep("addPoint") =>
        /\ (Open2D /\ getDistance(canvas2D.lastPoint, operation'.point2D) < minDistance)
             => canvas2D'.smoothedPoints = canvas2D.smoothedPoints
        /\ (Open3D /\ distanceTo(currentLine3D.lastPoint, operation'.point3D) < minDistance)
             => currentLine3D'.points = currentLine3D.points]_vars

\* C19, amended: on the 3D accumulator a raw point within minDistance of the last
\* committed point appends nothing; on the 2D accumulator nothing is appended when
\* the raw point and every point left in the smoothing buffer lie within
\* minDistance of the last committed point (the hand is at rest); in both cases
\* the last committed point stays.
C19_JitterGate ==
    [][OpStep("addPoint") =>
        /\ (Open2D /\ \A i \in 1..Len(canvas2D'.pointBuffer) :
                         getDistance(canvas2D.lastPoint, canvas2D'.pointBuffer[i]) < minDistance)
             => /\ canvas2D'.smoothedPoints = canvas2D.smoothedPoints
                /\ canvas2D'.lastPoint = canvas2D.lastPoint
        /\ (Open3D /\ distanceTo(currentLine3D.lastPoint, operation'.point3D) < minDistance)
             => /\ currentLine3D'.points = currentLine3D.points
                /\ currentLine3D'.lastPoint = currentLine3D.lastPoint]_vars

\* A run of raw points beside the point the stroke started at: the stroke has
\* kept its length of one while the smoothing buffer filled up.
C19_Witness ==
    /\ operation.name = "addPoint"
    /\ Open2D
    /\ Open3D
    /\ Len(canvas2D.pointBuffer) >= 3
    /\ Len(canvas2D.smoothedPoints) = 1
    /\ \A i \in 1..Len(canvas2D.pointBuffer) :
            getDistance(canvas2D.lastPoint, canvas2D.pointBuffer[i]) < minDistance
    /\ distanceTo(currentLine3D.lastPoint, operation.point3D) < minDistance

\* C20: clear() called while a stroke is open leaves the accumulator with no
\* strokes and no open stroke, and an addPoint with no stroke open changes nothing,
\* on the Canvas2D and on the Scene3D.
C20_ClearDuringStroke ==
    [][/\ (OpStep("clear") /\ Open2D)
             => /\ ~canvas2D'.isDrawing
                /\ canvas2D'.smoothedPoints = <<>>
                /\ canvas2D'.ctx = {}
       /\ (OpStep("clear") /\ Open3D)
             => /\ scene3D'.currentLine = 0
                /\ scene3D'.lines = <<>>
       /\ (OpStep("addPoint") /\ operation.name = "clear")
             => (canvas2D' = canvas2D /\ scene3D' = scene3D)]_vars

\* C21: a stroke is append-only while open and immutable once closed: an addPoint
\* on an open stroke leaves its point sequence as it was or appends one point at
\* its end, and an addPoint changes the points of no closed stroke: the 2D canvas
\* with no stroke open, and every line of the scene but the open one.
C21_AppendOnly ==
    [][OpStep("addPoint") =>
        LET SameOrOneMore(s, t) ==
                s = t \/ (Len(s) = Len(t) + 1 /\ SubSeq(s, 1, Len(t)) = t)
        IN
        /\ Open2D => (canvas2D'.isDrawing
                        /\ SameOrOneMore(canvas2D'.smoothedPoints, canvas2D.smoothedPoints))
        /\ ~Open2D => (canvas2D'.ctx = canvas2D.ctx
                         /\ canvas2D'.smoothedPoints = canvas2D.smoothedPoints)
        /\ Len(scene3D'.lines) = Len(scene3D.lines)
        /\ scene3D'.currentLine = scene3D.currentLine
        /\ \A i \in 1..Len(scene3D.lines) :
              IF i = scene3D.currentLine
              THEN SameOrOneMore(scene3D'.lines[i].points, scene3D.lines[i].points)
              ELSE scene3D'.lines[i].points = scene3D.lines[i].points]_vars

\* An addPoint appended to the second stroke, with a first stroke of two points
\* closed before it.
C21_Witness ==
    /\ operation.name = "addPoint"
    /\ Open2D
    /\ Len(canvas2D.smoothedPoints) >= 2
    /\ scene3D.currentLine = 2
    /\ Len(scene3D.lines[1].points) >= 2
    /\ ~scene3D.lines[1].isDrawing
    /\ Len(currentLine3D.points) >= 2

\* C22: the 3D accumulator admits points as the 2D one does: after the same
\* startDrawing and addPoint calls, all z equal, the x, y of the points committed
\* to the open 3D line are the points committed to the open 2D stroke.
C22_SamePipeline ==
    (Open2D /\ Open3D) =>
        [i \in 1..Len(currentLine3D.points) |->
            [x |-> currentLine3D.points[i].x, y |-> currentLine3D.points[i].y]]
        = canvas2D.smoothedPoints

(***************************************************************************)
(* Properties of startup and of the hand tracker                           *)
(***************************************************************************)
\* C23: startup readiness is a bounded wait: initialize polls for window.Hands at
\* most 50 times; while window.Hands is missing handTracker.start() has not been
\* called, the tracker is not processing and no frame has reached handleHandData;
\* a failed initialize has shown its alert; and when window.Hands never becomes
\* available initialize ends failed after its 50th poll and stays so.
C23_BoundedWait ==
    /\ [](startup.attempts <= maxAttempts)
    /\ [](~browser.Hands =>
            /\ handTracker.starts = <<>>
            /\ ~handTracker.isProcessing
            /\ handTracker.sentFrames = 0
            /\ frames = 0)
    /\ [](startup.pc = "failed" => browser.alerts = 1)
    /\ ([](~browser.Hands)
          => <>[](startup.pc = "failed" /\ startup.attempts = maxAttempts))

\* window.Hands never came: initialize failed after its 50th poll and alerted.
C23_Witness ==
    /\ ~browser.Hands
    /\ startup.pc = "failed"
    /\ startup.attempts = maxAttempts
    /\ browser.alerts = 1
    /\ handTracker.starts = <<>>

\* C24: the 2D smoothing buffer is a FIFO window of the most recent raw points: it
\* never holds more than 5 points; an addPoint on an open stroke appends the raw
\* point at its end and, when it held 5, drops the oldest and nothing else;
\* startDrawing leaves it holding the start point alone, stopDrawing and clear
\* leave it empty, and an addPoint with no stroke open leaves it as it was.
C24_BufferFifo ==
    [][/\ Len(canvas2D'.pointBuffer) <= 5
       /\ (OpStep("addPoint") /\ Open2D) =>
             LET pushed == Append(canvas2D.pointBuffer, operation'.point2D)
             IN  canvas2D'.pointBuffer =
                     IF Len(canvas2D.pointBuffer) = 5 THEN Tail(pushed) ELSE pushed
       /\ (OpStep("addPoint") /\ ~Open2D) => canvas2D'.pointBuffer = canvas2D.pointBuffer
       /\ OpStep("startDrawing") => canvas2D'.pointBuffer = <<operation'.point2D>>
       /\ (OpStep("stopDrawing") \/ OpStep("clear")) => canvas2D'.pointBuffer = <<>>]_vars

\* A full buffer that no longer holds the point the stroke started at: the fifth
\* addPoint of the stroke has evicted it.
C24_Witness ==
    /\ operation.name = "addPoint"
    /\ Open2D
    /\ Len(canvas2D.pointBuffer) = 5
    /\ canvas2D.pointBuffer[5] = operation.point2D
    /\ \A i \in 1..5 : canvas2D.pointBuffer[i] # canvas2D.smoothedPoints[1]

\* C25: in every stroke of either accumulator two consecutive committed points
\* are at least minDistance apart, and the last committed point is the last point
\* of the open stroke; an addPoint on an open stroke appends a point at least
\* minDistance from the last committed point and makes it the last committed
\* point, or leaves the stroke and the last committed point as they were.
C25_MinimumSpacing ==
    [][/\ \A i \in 1..(Len(canvas2D'.smoothedPoints) - 1) :
             getDistance(canvas2D'.smoothedPoints[i], canvas2D'.smoothedPoints[i + 1])
                 >= minDistance
       /\ \A k \in 1..Len(scene3D'.lines) :
             \A i \in 1..(Len(scene3D'.lines[k].points) - 1) :
                 distanceTo(scene3D'.lines[k].points[i], scene3D'.lines[k].points[i + 1])
                     >= minDistance
       /\ (OpStep("addPoint") /\ Open2D) =>
             \/ /\ canvas2D'.smoothedPoints = canvas2D.smoothedPoints
                /\ canvas2D'.lastPoint = canvas2D.lastPoint
             \/ /\ canvas2D'.smoothedPoints = Append(canvas2D.smoothedPoints, canvas2D'.lastPoint)
                /\ getDistance(canvas2D.lastPoint, canvas2D'.lastPoint) >= minDistance
       /\ (OpStep("addPoint") /\ Open3D) =>
             \/ /\ currentLine3D'.points = currentLine3D.points
                /\ currentLine3D'.lastPoint = currentLine3D.lastPoint
             \/ /\ currentLine3D'.points = Append(currentLine3D.points, currentLine3D'.lastPoint)
                /\ distanceTo(currentLine3D.lastPoint, currentLine3D'.lastPoint)
                       >= minDistance]_vars

\* Strokes of three points and more on both accumulators, one addPoint of the 2D
\* stroke turned away by the gate: the smoothing buffer holds more raw points
\* than the stroke has committed points.
C25_Witness ==
    /\ operation.name = "addPoint"
    /\ Open2D
    /\ Open3D
    /\ Len(canvas2D.smoothedPoints) >= 3
    /\ Len(currentLine3D.points) >= 3
    /\ Len(canvas2D.pointBuffer) > Len(canvas2D.smoothedPoints)

(***************************************************************************)
(* Properties of the orchestrator with the controls                        *)
(***************************************************************************)
\* C26: after every frame classified Pinch the 2D accumulator has an open stroke,
\* whatever clicks on the Clear button came between the frames.
C26_PinchKeepsDrawing ==
    [][(FrameStep /\ handData' # Null /\ lastGestureState'.gesture = PINCH)
        => canvas2D'.isDrawing]_vars

\* C27: in every state reached after any sequence of frames, currentMode none
\* means that neither the 2D nor the 3D accumulator has an open stroke.
C27_NoneModeNothingOpen == currentMode = "none" => (~Open2D /\ ~Open3D)

\* C28: smoothing never overshoots: every point committed to the open 2D stroke
\* lies in the bounding box of the point the stroke started at and the raw points
\* passed to addPoint since, with the smoothing factor 0, 0.7 or 1.
C28_NoOvershoot ==
    Open2D =>
        \A i \in 1..Len(canvas2D.smoothedPoints) :
            LET p == canvas2D.smoothedPoints[i]
            IN  /\ \E a, b \in operation.raws : a.x <= p.x /\ p.x <= b.x
                /\ \E a, b \in operation.raws : a.y <= p.y /\ p.y <= b.y

\* A stroke of four points and more through three raw points, its buffer full
\* (the weighted blend has run) and its last point not a raw point.
C28_Witness ==
    /\ operation.name = "addPoint"
    /\ Open2D
    /\ Len(canvas2D.pointBuffer) = 5
    /\ Len(canvas2D.smoothedPoints) >= 4
    /\ operation.raws = SamePoints
    /\ canvas2D.lastPoint \notin SamePoints

\* C29: however start() calls interleave, at most one chain of animation-frame
\* callbacks runs processFrame: at most one callback is requested at a time, and
\* no step, an animation frame with all its callbacks included, sends more than
\* one frame to the detector.
C29_OneLoop ==
    [][/\ Cardinality(handTracker'.callbacks) <= 1
       /\ handTracker'.sentFrames <= handTracker.sentFrames + 1]_vars

\* C30: while stop() is the last of the start() and stop() calls made, no frame
\* is sent to the detector.
C30_StoppedSendsNothing ==
    [][operation.name = "stop" => handTracker'.sentFrames = handTracker.sentFrames]_vars

====
